---- MODULE Spec2Model ----
(***************************************************************************)
(* Model of app.py: the GeoJSON 'location' validator, the NGSI-LD          *)
(* '@context' validator, the document validator that chains them, and the  *)
(* two Flask handlers (upload_file, validate_api) that call it.            *)
(*                                                                         *)
(* A parsed JSON value is the pair <<kind, payload>>:                      *)
(*   <<"null", 0>>, <<"bool", b>>, <<"num", n>>,                           *)
(*   <<"str",  sequence of one-character strings>>,                        *)
(*   <<"list", sequence of values>>,                                       *)
(*   <<"map",  sequence of <<key, value>> pairs>>  (keys are character     *)
(*             sequences, distinct, in insertion order as a Python dict).  *)
(* A call ends either by returning a verdict (valid, message) or by        *)
(* raising a Python exception; both are the record built by Return/Raise.  *)
(***************************************************************************)
EXTENDS Integers, Sequences, FiniteSets, TLC

VARIABLES
    pc,                 \* position of the request being served
    endpoint,           \* "none", "upload_file", "validate_api", or the function applied
    request,            \* the HTTP request: file part, file name, payload
    json_data,          \* the parsed document (or the argument of the function applied)
    idx,                \* index into validation_functions of the next field-check
    calls,              \* the functions invoked so far, in order
    verdict,            \* what the last call returned or raised
    response,           \* the HTTP response, once sent
    allowed_types_repr  \* how this process prints the set allowed_types

vars == <<pc, endpoint, request, json_data, idx, calls, verdict, response, allowed_types_repr>>

-----------------------------------------------------------------------------
(* Python values *)

Null == <<"null", 0>>
Bool(b) == <<"bool", b>>
Num(n) == <<"num", n>>
Str(s) == <<"str", s>>
List(l) == <<"list", l>>
Map(m) == <<"map", m>>

Kind(v) == v[1]
IsMapping(v) == Kind(v) = "map"
IsList(v) == Kind(v) = "list"
IsStr(v) == Kind(v) = "str"
\* bool is a subclass of int: True and False order and compare as 1 and 0
IsNumber(v) == Kind(v) \in {"num", "bool"}
NumVal(v) == IF Kind(v) = "bool" THEN (IF v[2] THEN 1 ELSE 0) ELSE v[2]

Return(valid, message) == [st |-> "return", valid |-> valid, msg |-> message]
Raise(exception) == [st |-> "raise", valid |-> FALSE, msg |-> exception]
NoVerdict == [st |-> "none", valid |-> FALSE, msg |-> ""]

\* len(v): defined for str, list and dict, TypeError otherwise
HasLen(v) == Kind(v) \in {"str", "list", "map"}
PyLen(v) == Len(v[2])

\* the items a for loop or a tuple unpacking draws from v (HasLen(v)):
\* the elements of a list, the characters of a str, the keys of a dict
PyIter(v) ==
    CASE IsList(v) -> v[2]
      [] IsStr(v) -> [i \in 1..Len(v[2]) |-> Str(<<v[2][i]>>)]
      [] IsMapping(v) -> [i \in 1..Len(v[2]) |-> Str(v[2][i][1])]

\* a == b on parsed JSON values
RECURSIVE PyEq(_, _)
PyEq(a, b) ==
    IF IsNumber(a) /\ IsNumber(b) THEN NumVal(a) = NumVal(b)
    ELSE IF Kind(a) # Kind(b) THEN FALSE
    ELSE CASE Kind(a) = "null" -> TRUE
           [] Kind(a) = "str" -> a[2] = b[2]
           [] Kind(a) = "list" ->
                /\ Len(a[2]) = Len(b[2])
                /\ \A i \in 1..Len(a[2]) : PyEq(a[2][i], b[2][i])
           [] Kind(a) = "map" ->
                /\ Len(a[2]) = Len(b[2])
                /\ \A i \in 1..Len(a[2]) : \E j \in 1..Len(b[2]) :
                      /\ a[2][i][1] = b[2][j][1]
                      /\ PyEq(a[2][i][2], b[2][j][2])

\* s.startswith(prefix) on character sequences
StartsWith(s, prefix) ==
    /\ Len(s) >= Len(prefix)
    /\ \A i \in 1..Len(prefix) : s[i] = prefix[i]

\* key in s, for two strings: key is a substring of s
IsSubstring(key, s) ==
    \E off \in 0..(Len(s) - Len(key)) : \A i \in 1..Len(key) : s[off + i] = key[i]

\* key in container, for a str key: TypeError unless the container is iterable
ContainsRaises(container) == ~HasLen(container)
Contains(key, container) ==
    CASE IsMapping(container) -> \E i \in 1..Len(container[2]) : container[2][i][1] = key
      [] IsList(container) -> \E i \in 1..Len(container[2]) : PyEq(container[2][i], Str(key))
      [] IsStr(container) -> IsSubstring(key, container[2])

\* container[key], for a str key, once key in container held:
\* a dict yields the value, a list or a str raises TypeError
Lookup(container, key) ==
    LET i == CHOOSE i \in 1..Len(container[2]) : container[2][i][1] = key
    IN  container[2][i][2]

\* hash(v), needed by `v not in {...}`: lists and dicts are unhashable
Hashable(v) == Kind(v) \notin {"list", "map"}

\* the characters of a str joined into one printable string
RECURSIVE Join(_)
Join(s) == IF s = <<>> THEN "" ELSE Head(s) \o Join(Tail(s))

\* format(v) inside an f-string, for the hashable values
PyStr(v) ==
    CASE Kind(v) = "str" -> Join(v[2])
      [] Kind(v) = "num" -> ToString(v[2])
      [] Kind(v) = "bool" -> IF v[2] THEN "True" ELSE "False"
      [] Kind(v) = "null" -> "None"

-----------------------------------------------------------------------------
(* validate_location_format *)

KeyType == <<"t", "y", "p", "e">>
KeyCoordinates == <<"c", "o", "o", "r", "d", "i", "n", "a", "t", "e", "s">>
TypePoint == <<"P", "o", "i", "n", "t">>
TypePolygon == <<"P", "o", "l", "y", "g", "o", "n">>
TypeLineString == <<"L", "i", "n", "e", "S", "t", "r", "i", "n", "g">>
allowed_types == {TypePoint, TypePolygon, TypeLineString}

LonMin == -180
LonMax == 180
LatMin == -90
LatMax == 90
PolygonLatMin == -180
\* fault: the Polygon loop given the latitude bound of Point and LineString
PolygonLatMaxAsPoint == LatMax
PolygonLatMax == 180
PointArity == 2
MinLinePoints == 2
MinRings == 1
MinRingPoints == 4

MsgMissingTypeOrCoordinates == "Missing 'type' or 'coordinates' in location."
MsgPointArity == "Point coordinates must contain exactly two elements (longitude, latitude)."
MsgPointRange == "Invalid coordinates for 'Point'. Longitude must be in [-180, 180] and latitude in [-90, 90]."
MsgLineLength == "LineString must have at least two points (each point is a pair of coordinates)."
MsgLineArity == "Each point in LineString must have exactly two elements (longitude, latitude)."
MsgLineRange == "Invalid point in LineString. Longitude must be in [-180, 180] and latitude in [-90, 90]."
MsgPolygonEmpty == "Polygon must have at least one linear ring (an array of arrays of coordinates)."
MsgRingLength == "Each linear ring in Polygon must have at least four points (coordinate pairs)."
MsgRingClosure == "The first and last point in each linear ring must be the same to close the Polygon."
MsgRingArity == "Each point in a Polygon ring must have exactly two elements (longitude, latitude)."
MsgRingRange == "Invalid point in Polygon. Longitude must be in [-180, 180] and latitude in [-90, 90]."
MsgLocationValid == "Location format is valid."

\* f"Invalid type: {location_type}. Allowed types are: {allowed_types}."
\* The set prints in the iteration order of this process (string hashing is
\* seeded per process), which allowed_types_repr holds.
MsgInvalidType(location_type) ==
    "Invalid type: " \o PyStr(location_type) \o ". Allowed types are: "
        \o allowed_types_repr \o "."

\* not (-180 <= longitude <= 180 and lo <= latitude <= hi), evaluated left to
\* right: comparing a non-number raises TypeError, and latitude is not looked
\* at once longitude is out of range
PairCheck(longitude, latitude, lo, hi) ==
    IF ~IsNumber(longitude) THEN "raise"
    ELSE IF ~(LonMin <= NumVal(longitude) /\ NumVal(longitude) <= LonMax) THEN "out"
    ELSE IF ~IsNumber(latitude) THEN "raise"
    ELSE IF ~(lo <= NumVal(latitude) /\ NumVal(latitude) <= hi) THEN "out"
    ELSE "ok"

ValidatePoint(coordinates) ==
    IF ~HasLen(coordinates) THEN Raise("TypeError")
    ELSE IF PyLen(coordinates) # PointArity THEN Return(FALSE, MsgPointArity)
    ELSE LET pair == PyIter(coordinates)
             chk == PairCheck(pair[1], pair[2], LatMin, LatMax)
         IN  CASE chk = "raise" -> Raise("TypeError")
               [] chk = "out" -> Return(FALSE, MsgPointRange)
               [] chk = "ok" -> Return(TRUE, MsgLocationValid)

\* the loop `for point in coordinates` of a LineString, from the i-th point on
RECURSIVE LineStringPoints(_, _)
LineStringPoints(points, i) ==
    IF i > Len(points) THEN Return(TRUE, MsgLocationValid)
    ELSE LET point == points[i] IN
         IF ~HasLen(point) THEN Raise("TypeError")
         ELSE IF PyLen(point) # PointArity THEN Return(FALSE, MsgLineArity)
         ELSE LET pair == PyIter(point)
                  chk == PairCheck(pair[1], pair[2], LatMin, LatMax)
              IN  CASE chk = "raise" -> Raise("TypeError")
                    [] chk = "out" -> Return(FALSE, MsgLineRange)
                    [] chk = "ok" -> LineStringPoints(points, i + 1)

ValidateLineString(coordinates) ==
    IF ~HasLen(coordinates) THEN Raise("TypeError")
    ELSE IF PyLen(coordinates) < MinLinePoints THEN Return(FALSE, MsgLineLength)
    ELSE LineStringPoints(PyIter(coordinates), 1)

\* the loop `for point in ring`, from the i-th point on
RECURSIVE RingPoints(_, _)
RingPoints(points, i) ==
    IF i > Len(points) THEN Return(TRUE, MsgLocationValid)
    ELSE LET point == points[i] IN
         IF ~HasLen(point) THEN Raise("TypeError")
         ELSE IF PyLen(point) # PointArity THEN Return(FALSE, MsgRingArity)
         ELSE LET pair == PyIter(point)
                  chk == PairCheck(pair[1], pair[2], PolygonLatMin, PolygonLatMax)
              IN  CASE chk = "raise" -> Raise("TypeError")
                    [] chk = "out" -> Return(FALSE, MsgRingRange)
                    [] chk = "ok" -> RingPoints(points, i + 1)

\* fault: the closure of a ring tested before its length
ValidateRingClosureFirst(ring) ==
    IF ~HasLen(ring) THEN Raise("TypeError")
    ELSE IF IsMapping(ring) THEN Raise("KeyError")
    ELSE IF PyLen(ring) = 0 THEN Raise("IndexError")
    ELSE LET points == PyIter(ring) IN
         IF ~PyEq(points[1], points[Len(points)]) THEN Return(FALSE, MsgRingClosure)
         ELSE IF PyLen(ring) < MinRingPoints THEN Return(FALSE, MsgRingLength)
         ELSE RingPoints(points, 1)

\* one pass of the body of `for ring in coordinates`
ValidateRing(ring) ==
    IF ~HasLen(ring) THEN Raise("TypeError")
    ELSE IF PyLen(ring) < MinRingPoints THEN Return(FALSE, MsgRingLength)
    \* ring[0], ring[-1]: a dict has no integer keys (JSON keys are strings)
    ELSE IF IsMapping(ring) THEN Raise("KeyError")
    ELSE LET points == PyIter(ring) IN
         IF ~PyEq(points[1], points[Len(points)]) THEN Return(FALSE, MsgRingClosure)
         ELSE RingPoints(points, 1)

\* fault: only the first ring is validated
PolygonRingsFirstOnly(rings, r) == ValidateRing(rings[1])

\* the loop `for ring in coordinates` of a Polygon, from the r-th ring on
RECURSIVE PolygonRings(_, _)
PolygonRings(rings, r) ==
    IF r > Len(rings) THEN Return(TRUE, MsgLocationValid)
    ELSE LET res == ValidateRing(rings[r]) IN
         IF res.st = "return" /\ res.valid THEN PolygonRings(rings, r + 1) ELSE res

ValidatePolygon(coordinates) ==
    IF ~HasLen(coordinates) THEN Raise("TypeError")
    ELSE IF PyLen(coordinates) < MinRings THEN Return(FALSE, MsgPolygonEmpty)
    ELSE PolygonRings(PyIter(coordinates), 1)

validate_location_format(location) ==
    IF ContainsRaises(location) THEN Raise("TypeError")
    ELSE IF ~Contains(KeyType, location) \/ ~Contains(KeyCoordinates, location)
         THEN Return(FALSE, MsgMissingTypeOrCoordinates)
    \* location["type"] on a list or a str that contains both words
    ELSE IF ~IsMapping(location) THEN Raise("TypeError")
    ELSE LET location_type == Lookup(location, KeyType) IN
         IF ~Hashable(location_type) THEN Raise("TypeError")
         ELSE IF ~(IsStr(location_type) /\ location_type[2] \in allowed_types)
              THEN Return(FALSE, MsgInvalidType(location_type))
         ELSE LET coordinates == Lookup(location, KeyCoordinates) IN
              CASE location_type[2] = TypePoint -> ValidatePoint(coordinates)
                [] location_type[2] = TypeLineString -> ValidateLineString(coordinates)
                [] location_type[2] = TypePolygon -> ValidatePolygon(coordinates)

-----------------------------------------------------------------------------
(* validate_context_format, the two field-checks, validation_functions *)

KeyLocation == <<"l", "o", "c", "a", "t", "i", "o", "n">>
KeyContext == <<"@", "c", "o", "n", "t", "e", "x", "t">>

expected_prefix ==
    <<"h", "t", "t", "p", "s", ":", "/", "/", "r", "a", "w", ".", "g", "i", "t", "h", "u", "b",
      "u", "s", "e", "r", "c", "o", "n", "t", "e", "n", "t", ".", "c", "o", "m", "/",
      "s", "m", "a", "r", "t", "-", "d", "a", "t", "a", "-", "m", "o", "d", "e", "l", "s", "/">>

MsgLocationMissing == "The 'location' attribute is missing."
MsgContextMissing == "The '@context' attribute is missing."
MsgContextNotList == "The '@context' attribute should be a non-empty list"
MsgContextUrl == "Invalid @context URL."
MsgContextValid == "Context format is valid."
MsgDataModelValid == "Data model is valid."

\* fault: every element of the list is held to the prefix, not the first only
validate_context_format_every_element(context) ==
    IF ~IsList(context) \/ PyLen(context) = 0 THEN Return(FALSE, MsgContextNotList)
    ELSE IF \E i \in 1..PyLen(context) : ~IsStr(context[2][i]) THEN Raise("AttributeError")
    ELSE IF \E i \in 1..PyLen(context) : ~StartsWith(context[2][i][2], expected_prefix)
         THEN Return(FALSE, MsgContextUrl)
    ELSE Return(TRUE, MsgContextValid)

validate_context_format(context) ==
    IF ~IsList(context) \/ PyLen(context) = 0 THEN Return(FALSE, MsgContextNotList)
    ELSE LET context_url == context[2][1] IN
         \* only str has the method startswith
         IF ~IsStr(context_url) THEN Raise("AttributeError")
         ELSE IF ~StartsWith(context_url[2], expected_prefix) THEN Return(FALSE, MsgContextUrl)
         ELSE Return(TRUE, MsgContextValid)

check_location_in_json(doc) ==
    IF ContainsRaises(doc) THEN Raise("TypeError")
    ELSE IF ~Contains(KeyLocation, doc) THEN Return(FALSE, MsgLocationMissing)
    \* json_data["location"] on a list or a str that contains the word
    ELSE IF ~IsMapping(doc) THEN Raise("TypeError")
    ELSE validate_location_format(Lookup(doc, KeyLocation))

check_context_in_json(doc) ==
    IF ContainsRaises(doc) THEN Raise("TypeError")
    ELSE IF ~Contains(KeyContext, doc) THEN Return(FALSE, MsgContextMissing)
    ELSE IF ~IsMapping(doc) THEN Raise("TypeError")
    ELSE validate_context_format(Lookup(doc, KeyContext))

\* fault: the field-checks registered in the other order
validation_functions_swapped == <<"check_context_in_json", "check_location_in_json">>

validation_functions == <<"check_location_in_json", "check_context_in_json">>

\* validate_func(json_data), for the validate_func of that name
CallValidateFunc(validate_func, doc) ==
    CASE validate_func = "check_location_in_json" -> check_location_in_json(doc)
      [] validate_func = "check_context_in_json" -> check_context_in_json(doc)

-----------------------------------------------------------------------------
(* the inputs the validators are applied to *)

MaxLinePoints == 3      \* longest LineString enumerated
MaxRingPoints == 5      \* longest Polygon ring enumerated
MaxRings == 2           \* most rings in a Polygon enumerated
MaxContextLen == 3      \* longest '@context' list enumerated

SeqsUpTo(S, n) == UNION {[1..k -> S] : k \in 0..n}

\* the set allowed_types printed in each of its possible iteration orders
AllowedTypesReprs ==
    { "{'Point', 'Polygon', 'LineString'}", "{'Point', 'LineString', 'Polygon'}",
      "{'Polygon', 'Point', 'LineString'}", "{'Polygon', 'LineString', 'Point'}",
      "{'LineString', 'Point', 'Polygon'}", "{'LineString', 'Polygon', 'Point'}" }

Pair(lon, lat) == List(<<Num(lon), Num(lat)>>)
GeoJson(type, coordinates) == Map(<< <<KeyType, type>>, <<KeyCoordinates, coordinates>> >>)

\* numbers on both sides of every bound the range checks use
CoordNums == {-181, -180, -91, -90, 0, 90, 91, 180, 181}
BoundaryPairs == {Pair(lon, lat) : lon \in CoordNums, lat \in CoordNums}
Scalars == {Num(n) : n \in CoordNums} \cup {Null, Bool(TRUE), Str(<<"a">>)}

\* what can stand where a number, a point, a ring or a sequence is expected
OddValues ==
    { Null, Bool(FALSE), Num(5), Str(<<>>), Str(<<"a", "b">>), Str(<<"a", "b", "c", "a">>),
      Map(<<>>), Map(<< <<KeyType, Num(0)>>, <<KeyCoordinates, Num(0)>> >>),
      Map(<< <<<<"a">>, Num(0)>>, <<<<"b">>, Num(0)>>, <<<<"c">>, Num(0)>>, <<<<"d">>, Num(0)>> >>),
      List(<<Str(KeyType), Str(KeyCoordinates)>>),
      Str(KeyType \o KeyCoordinates) }

PointCoordinates ==
    {List(s) : s \in SeqsUpTo(Scalars, PointArity)}
        \cup {List(<<Num(0), Num(0), Num(0)>>), List(<<Pair(0, 0), Pair(0, 0)>>)}

\* an in-range pair, a latitude only a Polygon accepts, a longitude nothing
\* accepts, a point of one element, a point that is no sequence
RingPointSamples == {Pair(0, 0), Pair(0, 100), Pair(200, 0), List(<<Num(0)>>), Num(5)}
LinePointSamples ==
    RingPointSamples \cup {List(<<Num(0), Num(0), Num(0)>>), Str(<<"a", "b">>),
                           List(<<Num(200), Str(<<"a">>)>>), List(<<Num(0), Str(<<"a">>)>>)}

LineCoordinates ==
    {List(s) : s \in SeqsUpTo(LinePointSamples, MaxLinePoints)}
        \cup {List(<<Pair(0, 0), p>>) : p \in BoundaryPairs}

Rings == {List(s) : s \in SeqsUpTo(RingPointSamples, MaxRingPoints)}
BoundaryRings == {List(<<p, Pair(0, 0), Pair(0, 0), p>>) : p \in BoundaryPairs}
RingSamples ==
    { List(<<Pair(0, 0), Pair(0, 100), Pair(0, 0), Pair(0, 0)>>),      \* accepted
      List(<<Pair(0, 0), Pair(0, 100), Pair(0, 0)>>),                  \* closed, too short
      List(<<Pair(0, 0), Pair(0, 0), Pair(0, 0), Pair(0, 100)>>),      \* not closed
      List(<<List(<<Num(0)>>), Pair(0, 0), Pair(0, 0), List(<<Num(0)>>)>>),   \* arity
      List(<<Pair(0, 0), Pair(0, 0), Pair(200, 0), Pair(0, 0)>>),      \* range
      List(<<Num(5), Pair(0, 0), Pair(0, 0), Num(5)>>),                \* a point with no len
      Num(5) }                                                         \* a ring with no len

PolygonCoordinates ==
    {List(<<r>>) : r \in Rings \cup BoundaryRings}
        \cup {List(s) : s \in SeqsUpTo(RingSamples, MaxRings)}

Locations ==
    {GeoJson(Str(TypePoint), c) : c \in PointCoordinates \cup OddValues}
        \cup {GeoJson(Str(TypeLineString), c) : c \in LineCoordinates \cup OddValues}
        \cup {GeoJson(Str(TypePolygon), c) : c \in PolygonCoordinates \cup OddValues}
        \cup {GeoJson(t, c) :
                t \in {Str(<<"M", "u", "l", "t", "i", "P", "o", "i", "n", "t">>),
                       Str(<<"p", "o", "i", "n", "t">>), Num(5), Null, Bool(TRUE),
                       List(<<Str(TypePoint)>>), Map(<<>>)},
                c \in {Pair(0, 0), Num(5)}}
        \cup {Map(<< <<KeyType, Str(TypePoint)>> >>),
              Map(<< <<KeyCoordinates, Pair(0, 0)>> >>)}
        \cup OddValues

NoRequest == [has_file |-> FALSE, filename |-> "", parses |-> FALSE, body |-> Null]
NoResponse == [status |-> 0, key |-> "", text |-> ""]

-----------------------------------------------------------------------------
(* validate_location_format applied to one location *)

InitLocation ==
    /\ pc = "call"
    /\ endpoint = "validate_location_format"
    /\ request = NoRequest
    /\ json_data \in Locations
    /\ idx = 0
    /\ calls = <<>>
    /\ verdict = NoVerdict
    /\ response = NoResponse
    /\ allowed_types_repr \in AllowedTypesReprs

ApplyValidateLocationFormat ==
    /\ pc = "call"
    /\ endpoint = "validate_location_format"
    /\ verdict' = validate_location_format(json_data)
    /\ calls' = Append(calls, endpoint)
    /\ pc' = "done"
    /\ UNCHANGED <<endpoint, request, json_data, idx, response, allowed_types_repr>>

NextLocation == ApplyValidateLocationFormat

SpecLocation == InitLocation /\ [][NextLocation]_vars

-----------------------------------------------------------------------------
(* validate_context_format applied to one '@context' value, and then again *)
(* after an edit of an element behind the first                            *)

UrlGood == expected_prefix \o <<"d", "a", "t", "a">>
UrlTruncated == SubSeq(expected_prefix, 1, Len(expected_prefix) - 1)
UrlOther == <<"h", "t", "t", "p", ":", "/", "/", "o", "t", "h", "e", "r", ".", "o", "r", "g", "/", "x">>

ContextElements ==
    { Str(UrlGood), Str(expected_prefix), Str(UrlTruncated), Str(UrlOther),
      Num(5), List(<<Str(UrlGood)>>) }

Contexts ==
    {List(s) : s \in SeqsUpTo(ContextElements, MaxContextLen)}
        \cup {Str(UrlGood), Null, Num(5), Bool(TRUE), Map(<<>>), Map(<< <<UrlGood, Str(UrlGood)>> >>)}

InitContext ==
    /\ pc = "call"
    /\ endpoint = "validate_context_format"
    /\ request = NoRequest
    /\ json_data \in Contexts
    /\ idx = 0
    /\ calls = <<>>
    /\ verdict = NoVerdict
    /\ response = NoResponse
    /\ allowed_types_repr \in AllowedTypesReprs

ApplyValidateContextFormat ==
    /\ pc = "call"
    /\ endpoint = "validate_context_format"
    /\ verdict' = validate_context_format(json_data)
    /\ calls' = Append(calls, endpoint)
    /\ pc' = "done"
    /\ UNCHANGED <<endpoint, request, json_data, idx, response, allowed_types_repr>>

\* the caller changes the list behind its first element and validates again
Revalidate(context) ==
    /\ json_data' = context
    /\ verdict' = validate_context_format(context)
    /\ UNCHANGED <<pc, endpoint, request, idx, calls, response, allowed_types_repr>>

EditableContext ==
    /\ pc = "done"
    /\ endpoint = "validate_context_format"
    /\ IsList(json_data)
    /\ PyLen(json_data) >= 1

AppendLaterElement ==
    /\ EditableContext
    /\ PyLen(json_data) < MaxContextLen
    /\ \E e \in ContextElements : Revalidate(List(Append(json_data[2], e)))

RemoveLaterElement ==
    /\ EditableContext
    /\ PyLen(json_data) >= 2
    /\ \E i \in 2..PyLen(json_data) :
          Revalidate(List(SubSeq(json_data[2], 1, i - 1)
                            \o SubSeq(json_data[2], i + 1, PyLen(json_data))))

ReplaceLaterElement ==
    /\ EditableContext
    /\ \E i \in 2..PyLen(json_data), e \in ContextElements :
          Revalidate(List([json_data[2] EXCEPT ![i] = e]))

NextContext ==
    \/ ApplyValidateContextFormat
    \/ AppendLaterElement
    \/ RemoveLaterElement
    \/ ReplaceLaterElement

SpecContext == InitContext /\ [][NextContext]_vars

-----------------------------------------------------------------------------
(* the service: upload_file and validate_api around validate_json_data *)

DocLocations ==
    { GeoJson(Str(TypePoint), Pair(10, 20)),
      GeoJson(Str(TypePoint), Pair(200, 10)),
      GeoJson(Str(TypePoint), Num(5)),
      GeoJson(Str(TypeLineString), List(<<Pair(0, 0), Num(5)>>)),
      GeoJson(Str(TypePolygon), List(<<List(<<Pair(0, 0), Pair(0, 100), Pair(1, 1), Pair(0, 0)>>)>>)),
      GeoJson(Str(TypePolygon), List(<<List(<<Pair(0, 0), Pair(0, 1), Pair(1, 1), Pair(1, 0)>>)>>)),
      GeoJson(Str(<<"M", "u", "l", "t", "i", "P", "o", "i", "n", "t">>), Pair(10, 20)),
      Map(<< <<KeyType, Str(TypePoint)>> >>),
      Map(<<>>), Null, Num(5), Str(<<"a">>), Str(KeyType \o KeyCoordinates),
      List(<<Num(10), Num(20)>>), List(<<Str(KeyType), Str(KeyCoordinates)>>) }

DocContexts ==
    { List(<<Str(UrlGood)>>), List(<<Str(UrlGood), Num(5)>>), List(<<Str(UrlOther)>>),
      List(<<Num(5)>>), List(<<Null, Str(UrlGood)>>), List(<<>>),
      Str(UrlGood), Null, Map(<<>>) }

\* a mapping document: an 'id', then 'location' and '@context' when present
DocFields(key, values) == {<<>>} \cup {<< <<key, v>> >> : v \in values}
MappingDocs ==
    {Map(<< <<<<"i", "d">>, Str(<<"x">>)>> >> \o l \o c) :
        l \in DocFields(KeyLocation, DocLocations), c \in DocFields(KeyContext, DocContexts)}
            \cup {Map(<<>>)}

\* the other JSON roots: sequence, string, number, boolean, null
OtherRoots ==
    { List(<<>>), List(<<Num(1)>>), List(<<Str(KeyLocation)>>),
      List(<<Str(KeyLocation), Str(KeyContext)>>),
      Str(<<>>), Str(<<"a">>), Str(KeyLocation), Str(KeyLocation \o KeyContext),
      Num(0), Num(5), Bool(TRUE), Bool(FALSE), Null }

Docs == MappingDocs \cup OtherRoots

UploadRequests ==
    { [has_file |-> FALSE, filename |-> "", parses |-> FALSE, body |-> Null],
      [has_file |-> TRUE, filename |-> "", parses |-> FALSE, body |-> Null],
      [has_file |-> TRUE, filename |-> "doc.json", parses |-> FALSE, body |-> Null] }
        \cup {[has_file |-> TRUE, filename |-> "doc.json", parses |-> TRUE, body |-> d] : d \in Docs}

ApiRequests ==
    { [has_file |-> FALSE, filename |-> "", parses |-> FALSE, body |-> Null] }
        \cup {[has_file |-> FALSE, filename |-> "", parses |-> TRUE, body |-> d] : d \in Docs}

Respond(status, key, text) ==
    /\ response' = [status |-> status, key |-> key, text |-> text]
    /\ pc' = "responded"

Init ==
    /\ pc = "idle"
    /\ endpoint = "none"
    /\ request = NoRequest
    /\ json_data = Null
    /\ idx = 0
    /\ calls = <<>>
    /\ verdict = NoVerdict
    /\ response = NoResponse
    /\ allowed_types_repr \in AllowedTypesReprs

\* POST /upload arrives
ReceiveUpload ==
    /\ pc = "idle"
    /\ request' \in UploadRequests
    /\ endpoint' = "upload_file"
    /\ pc' = "handler"
    /\ UNCHANGED <<json_data, idx, calls, verdict, response, allowed_types_repr>>

\* POST /api/validate arrives
ReceiveApi ==
    /\ pc = "idle"
    /\ request' \in ApiRequests
    /\ endpoint' = "validate_api"
    /\ pc' = "handler"
    /\ UNCHANGED <<json_data, idx, calls, verdict, response, allowed_types_repr>>

UploadNoFile ==
    /\ pc = "handler" /\ endpoint = "upload_file"
    /\ ~request.has_file
    /\ Respond(400, "error", "No file provided")
    /\ UNCHANGED <<endpoint, request, json_data, idx, calls, verdict, allowed_types_repr>>

UploadNoFilename ==
    /\ pc = "handler" /\ endpoint = "upload_file"
    /\ request.has_file /\ request.filename = ""
    /\ Respond(400, "error", "No file selected")
    /\ UNCHANGED <<endpoint, request, json_data, idx, calls, verdict, allowed_types_repr>>

\* json.load raises json.JSONDecodeError, which the except clause answers
UploadInvalidJson ==
    /\ pc = "handler" /\ endpoint = "upload_file"
    /\ request.has_file /\ request.filename # "" /\ ~request.parses
    /\ Respond(400, "error", "Invalid JSON file.")
    /\ UNCHANGED <<endpoint, request, json_data, idx, calls, verdict, allowed_types_repr>>

\* entry into validate_json_data(json_data)
EnterValidateJsonData(doc) ==
    /\ json_data' = doc
    /\ idx' = 1
    /\ calls' = Append(calls, "validate_json_data")
    /\ pc' = "validate_json_data"
    /\ UNCHANGED <<endpoint, request, verdict, response, allowed_types_repr>>

UploadParsed ==
    /\ pc = "handler" /\ endpoint = "upload_file"
    /\ request.has_file /\ request.filename # "" /\ request.parses
    /\ EnterValidateJsonData(request.body)

\* request.get_json() fails on the body: either the decode error reaches the
\* except clause, or the framework aborts the request with its own 400
ApiInvalidJson ==
    /\ pc = "handler" /\ endpoint = "validate_api"
    /\ ~request.parses
    /\ \/ Respond(400, "error", "Invalid JSON data.")
       \/ Respond(400, "", "Bad Request")
    /\ UNCHANGED <<endpoint, request, json_data, idx, calls, verdict, allowed_types_repr>>

\* json_data is None: the body was the JSON value null
ApiNoJson ==
    /\ pc = "handler" /\ endpoint = "validate_api"
    /\ request.parses /\ request.body = Null
    /\ json_data' = request.body
    /\ Respond(400, "error", "No JSON provided")
    /\ UNCHANGED <<endpoint, request, idx, calls, verdict, allowed_types_repr>>

ApiParsed ==
    /\ pc = "handler" /\ endpoint = "validate_api"
    /\ request.parses /\ request.body # Null
    /\ EnterValidateJsonData(request.body)

\* one pass of `for validate_func in validation_functions`
ValidateFieldCheck ==
    /\ pc = "validate_json_data"
    /\ idx <= Len(validation_functions)
    /\ LET validate_func == validation_functions[idx]
           res == CallValidateFunc(validate_func, json_data)
       IN  /\ calls' = Append(calls, validate_func)
           /\ IF res.st = "raise"
                THEN /\ verdict' = res
                     /\ pc' = "raised"
                     /\ idx' = idx
              ELSE IF ~res.valid
                THEN /\ verdict' = Return(FALSE, res.msg)
                     /\ pc' = "returned"
                     /\ idx' = idx
              ELSE /\ verdict' = verdict
                   /\ pc' = pc
                   /\ idx' = idx + 1
    /\ UNCHANGED <<endpoint, request, json_data, response, allowed_types_repr>>

\* the loop ran out of field-checks
ValidateAllPassed ==
    /\ pc = "validate_json_data"
    /\ idx > Len(validation_functions)
    /\ verdict' = Return(TRUE, MsgDataModelValid)
    /\ pc' = "returned"
    /\ UNCHANGED <<endpoint, request, json_data, idx, calls, response, allowed_types_repr>>

RespondValid ==
    /\ pc = "returned"
    /\ verdict.valid
    /\ Respond(200, "message", "Data model is valid.")
    /\ UNCHANGED <<endpoint, request, json_data, idx, calls, verdict, allowed_types_repr>>

RespondInvalid ==
    /\ pc = "returned"
    /\ ~verdict.valid
    /\ Respond(400, "error", "Validation failed: " \o verdict.msg)
    /\ UNCHANGED <<endpoint, request, json_data, idx, calls, verdict, allowed_types_repr>>

\* the exception is no json.JSONDecodeError: it leaves the handler and the
\* framework answers 500
RespondUnhandled ==
    /\ pc = "raised"
    /\ Respond(500, "", "Internal Server Error")
    /\ UNCHANGED <<endpoint, request, json_data, idx, calls, verdict, allowed_types_repr>>

\* the worker is free for the next request
NextRequest ==
    /\ pc = "responded"
    /\ pc' = "idle"
    /\ endpoint' = "none"
    /\ request' = NoRequest
    /\ json_data' = Null
    /\ idx' = 0
    /\ calls' = <<>>
    /\ verdict' = NoVerdict
    /\ response' = NoResponse
    /\ UNCHANGED allowed_types_repr

Next ==
    \/ ReceiveUpload
    \/ ReceiveApi
    \/ UploadNoFile
    \/ UploadNoFilename
    \/ UploadInvalidJson
    \/ UploadParsed
    \/ ApiInvalidJson
    \/ ApiNoJson
    \/ ApiParsed
    \/ ValidateFieldCheck
    \/ ValidateAllPassed
    \/ RespondValid
    \/ RespondInvalid
    \/ RespondUnhandled
    \/ NextRequest

Spec == Init /\ [][Next]_vars

-----------------------------------------------------------------------------
(* properties of the service *)

Range(seq) == {seq[i] : i \in DOMAIN seq}
Times(name, seq) == Cardinality({i \in DOMAIN seq : seq[i] = name})

\* validate_json_data was entered and has returned or raised
Finished == pc \in {"returned", "raised"}
Accepted(res) == res.st = "return" /\ res.valid
Rejected(res) == res.st = "return" /\ ~res.valid
HasField(doc, key) == IsMapping(doc) /\ \E i \in 1..Len(doc[2]) : doc[2][i][1] = key

\* C1: the field-checks run in the order location, @context and stop at the
\* first that fails: whenever the location check of the document returns
\* (False, message), validate_json_data returns exactly that pair and
\* check_context_in_json is not called, whatever '@context' holds; and
\* check_context_in_json is called only after the location check passed.
C1_LocationCheckFirst ==
    Finished =>
        LET loc == check_location_in_json(json_data) IN
        /\ Rejected(loc) =>
              /\ verdict = loc
              /\ calls = <<"validate_json_data", "check_location_in_json">>
        /\ "check_context_in_json" \in Range(calls) => Accepted(loc)
        /\ (Rejected(verdict) /\ verdict.msg \in {MsgContextMissing, MsgContextNotList, MsgContextUrl})
              => Accepted(loc)

\* the location check failed on a document whose '@context' is invalid too
C1_Witness ==
    /\ pc = "returned"
    /\ Rejected(check_location_in_json(json_data))
    /\ HasField(json_data, KeyContext)
    /\ Rejected(check_context_in_json(json_data))

\* C2: for a mapping document, validate_json_data never raises: whatever the
\* type or shape of 'location' and '@context', it returns a verdict.
C2_NoExceptionOnFieldDefect ==
    (Finished /\ IsMapping(json_data)) => verdict.st = "return"

\* C3: a document of any JSON root kind without a 'location' field gets
\* exactly (False, "The 'location' attribute is missing."), and one whose
\* location check passes and that has no '@context' gets exactly
\* (False, "The '@context' attribute is missing.").
C3_MissingFieldVerdicts ==
    Finished =>
        /\ ~HasField(json_data, KeyLocation) => verdict = Return(FALSE, MsgLocationMissing)
        /\ (Accepted(check_location_in_json(json_data)) /\ ~HasField(json_data, KeyContext))
              => verdict = Return(FALSE, MsgContextMissing)

\* C4: a root document that is no mapping is a structural mismatch:
\* validate_json_data returns (False, message) for it, and both handlers
\* answer it with 400.
C4_NonMappingRootRejected ==
    /\ (Finished /\ ~IsMapping(json_data)) => Rejected(verdict)
    /\ (pc = "responded" /\ request.parses /\ ~IsMapping(request.body)
            /\ (endpoint = "upload_file" => request.has_file /\ request.filename # ""))
          => response.status = 400

FailureReasons ==
    { MsgLocationMissing, MsgContextMissing, MsgContextNotList, MsgContextUrl,
      MsgMissingTypeOrCoordinates, MsgPointArity, MsgPointRange, MsgLineLength, MsgLineArity,
      MsgLineRange, MsgPolygonEmpty, MsgRingLength, MsgRingClosure, MsgRingArity, MsgRingRange }
        \cup {"Invalid type: " \o t \o ". Allowed types are: " \o allowed_types_repr \o "." :
                t \in {"MultiPoint", "point", "5", "None", "True", "False", "0"}}

BothFieldsAccepted(doc) ==
    /\ HasField(doc, KeyLocation)
    /\ Accepted(validate_location_format(Lookup(doc, KeyLocation)))
    /\ HasField(doc, KeyContext)
    /\ Accepted(validate_context_format(Lookup(doc, KeyContext)))

\* C5: validate_json_data returns (True, "Data model is valid.") exactly for
\* the documents whose 'location' and '@context' are both accepted by their
\* validators; for every other document it returns False with a failure
\* reason.
C5_ValidIffBothAccepted ==
    Finished =>
        IF BothFieldsAccepted(json_data)
        THEN verdict = Return(TRUE, MsgDataModelValid)
        ELSE Rejected(verdict) /\ verdict.msg \in FailureReasons

\* the payload went past the handler's own request checks to the JSON parser
ReachedParser ==
    endpoint = "validate_api"
        \/ (endpoint = "upload_file" /\ request.has_file /\ request.filename # "")

\* C9: in both handlers a payload that does not parse gets 400 and the core
\* is not called; a payload that parses leads to exactly one call of
\* validate_json_data and is answered 200 with the core's message when the
\* verdict is valid and 400 with "Validation failed: " and the core's message
\* when it is not.
C9_TransportMapping ==
    (pc = "responded" /\ ReachedParser) =>
        IF ~request.parses
        THEN /\ response.status = 400
             /\ Times("validate_json_data", calls) = 0
        ELSE /\ Times("validate_json_data", calls) = 1
             /\ \/ Accepted(verdict) /\ response = [status |-> 200, key |-> "message", text |-> verdict.msg]
                \/ /\ Rejected(verdict)
                   /\ response = [status |-> 400, key |-> "error",
                                  text |-> "Validation failed: " \o verdict.msg]

-----------------------------------------------------------------------------
(* properties of validate_location_format *)

\* the location is a mapping of that GeoJSON type with 'coordinates'
IsGeometry(location, type) ==
    /\ IsMapping(location)
    /\ Contains(KeyType, location)
    /\ Contains(KeyCoordinates, location)
    /\ Lookup(location, KeyType) = Str(type)

Coordinates == Lookup(json_data, KeyCoordinates)
Applied == pc = "done" /\ endpoint = "validate_location_format"

\* a sequence of exactly two numbers
IsPair(p) == IsList(p) /\ Len(p[2]) = 2 /\ IsNumber(p[2][1]) /\ IsNumber(p[2][2])
Lon(p) == NumVal(p[2][1])
Lat(p) == NumVal(p[2][2])
Within(p, latBound) ==
    /\ IsPair(p)
    /\ -180 <= Lon(p) /\ Lon(p) <= 180
    /\ -latBound <= Lat(p) /\ Lat(p) <= latBound

\* a ring of at least four pairs, first equal to last element by element
ClosedRing(ring) ==
    /\ IsList(ring)
    /\ Len(ring[2]) >= 4
    /\ \A i \in 1..Len(ring[2]) : IsPair(ring[2][i])
    /\ Lon(ring[2][1]) = Lon(ring[2][Len(ring[2])])
    /\ Lat(ring[2][1]) = Lat(ring[2][Len(ring[2])])

PassingRing(ring) ==
    /\ ClosedRing(ring)
    /\ \A i \in 1..Len(ring[2]) : Within(ring[2][i], 180)

\* C7: a Polygon is accepted only if 'coordinates' is a non-empty sequence
\* whose every ring has at least 4 points and a first point equal to its last;
\* the first ring that does not pass is rejected with the closure message
\* when it has 4 or more points and its first and last point differ, and with
\* the ring-length message when it has fewer than 4 points, closed or not.
C7_PolygonRingRules ==
    (Applied /\ IsGeometry(json_data, TypePolygon)) =>
        /\ Accepted(verdict) =>
              /\ IsList(Coordinates)
              /\ Len(Coordinates[2]) >= 1
              /\ \A r \in 1..Len(Coordinates[2]) :
                    LET ring == Coordinates[2][r] IN
                    /\ IsList(ring)
                    /\ Len(ring[2]) >= 4
                    /\ PyEq(ring[2][1], ring[2][Len(ring[2])])
        /\ IsList(Coordinates) =>
              \A r \in 1..Len(Coordinates[2]) :
                  LET ring == Coordinates[2][r] IN
                  ( /\ \A q \in 1..(r - 1) : PassingRing(Coordinates[2][q])
                    /\ IsList(ring) )
                  => /\ Len(ring[2]) < 4 => verdict = Return(FALSE, MsgRingLength)
                     /\ (Len(ring[2]) >= 4 /\ ~PyEq(ring[2][1], ring[2][Len(ring[2])]))
                           => verdict = Return(FALSE, MsgRingClosure)

\* a second ring rejected for its closure, and one rejected for its length
\* although it is closed
C7_Witness ==
    /\ Applied
    /\ IsGeometry(json_data, TypePolygon)
    /\ IsList(Coordinates)
    /\ Len(Coordinates[2]) = 2
    /\ PassingRing(Coordinates[2][1])
    /\ LET ring == Coordinates[2][2] IN
       /\ IsList(ring)
       /\ \/ /\ Len(ring[2]) >= 4
             /\ ~PyEq(ring[2][1], ring[2][Len(ring[2])])
             /\ verdict.msg = MsgRingClosure
          \/ /\ Len(ring[2]) = 3
             /\ PyEq(ring[2][1], ring[2][3])
             /\ verdict.msg = MsgRingLength

\* what the rules say of one point: "ok", its arity, its range, or "other"
\* when it is no sequence or holds a non-number
PointFault(p, latBound) ==
    IF ~IsList(p) THEN "other"
    ELSE IF Len(p[2]) # 2 THEN "arity"
    ELSE IF ~IsPair(p) THEN "other"
    ELSE IF Within(p, latBound) THEN "ok" ELSE "range"

FirstFaulty(points, latBound) ==
    CHOOSE i \in 1..Len(points) :
        /\ PointFault(points[i], latBound) # "ok"
        /\ \A j \in 1..(i - 1) : PointFault(points[j], latBound) = "ok"

\* what the rules say of one ring, checked length, closure, then its points
RingFault(ring) ==
    IF ~IsList(ring) THEN "other"
    ELSE IF Len(ring[2]) < 4 THEN "length"
    ELSE IF ~PyEq(ring[2][1], ring[2][Len(ring[2])]) THEN "closure"
    ELSE IF \A i \in 1..Len(ring[2]) : PointFault(ring[2][i], 180) = "ok" THEN "ok"
    ELSE PointFault(ring[2][FirstFaulty(ring[2], 180)], 180)

FirstFaultyRing(rings) ==
    CHOOSE r \in 1..Len(rings) :
        /\ RingFault(rings[r]) # "ok"
        /\ \A q \in 1..(r - 1) : RingFault(rings[q]) = "ok"

\* C10: the checks of validate_location_format apply in a fixed order and the
\* first violation decides the message: missing 'type' or 'coordinates', then
\* the type, then the shape; a LineString shorter than 2 before any point,
\* then the first faulty point (arity before range); an empty Polygon before
\* any ring, then the first faulty ring, and in it length, closure, then its
\* first faulty point. Later rings and points never change the message.
C10_FirstViolationDecides ==
    (Applied /\ IsMapping(json_data)) =>
        IF ~Contains(KeyType, json_data) \/ ~Contains(KeyCoordinates, json_data)
        THEN verdict = Return(FALSE, MsgMissingTypeOrCoordinates)
        ELSE IF Hashable(Lookup(json_data, KeyType))
                  /\ \A t \in allowed_types : Lookup(json_data, KeyType) # Str(t)
        THEN verdict = Return(FALSE, MsgInvalidType(Lookup(json_data, KeyType)))
        ELSE /\ (IsGeometry(json_data, TypeLineString) /\ IsList(Coordinates)) =>
                  LET points == Coordinates[2] IN
                  IF Len(points) < 2 THEN verdict = Return(FALSE, MsgLineLength)
                  ELSE IF \A i \in 1..Len(points) : PointFault(points[i], 90) = "ok"
                  THEN Accepted(verdict)
                  ELSE LET fault == PointFault(points[FirstFaulty(points, 90)], 90) IN
                       /\ fault = "arity" => verdict = Return(FALSE, MsgLineArity)
                       /\ fault = "range" => verdict = Return(FALSE, MsgLineRange)
             /\ (IsGeometry(json_data, TypePolygon) /\ IsList(Coordinates)) =>
                  LET rings == Coordinates[2] IN
                  IF Len(rings) = 0 THEN verdict = Return(FALSE, MsgPolygonEmpty)
                  ELSE IF \A r \in 1..Len(rings) : RingFault(rings[r]) = "ok"
                  THEN Accepted(verdict)
                  ELSE LET fault == RingFault(rings[FirstFaultyRing(rings)]) IN
                       /\ fault = "length" => verdict = Return(FALSE, MsgRingLength)
                       /\ fault = "closure" => verdict = Return(FALSE, MsgRingClosure)
                       /\ fault = "arity" => verdict = Return(FALSE, MsgRingArity)
                       /\ fault = "range" => verdict = Return(FALSE, MsgRingRange)

\* the first ring breaks a rule checked late (a point out of range), the
\* second a rule checked early (too short): the first ring's fault is reported
C10_Witness ==
    /\ Applied
    /\ IsGeometry(json_data, TypePolygon)
    /\ IsList(Coordinates)
    /\ Len(Coordinates[2]) = 2
    /\ RingFault(Coordinates[2][1]) = "range"
    /\ RingFault(Coordinates[2][2]) = "length"
    /\ verdict = Return(FALSE, MsgRingRange)

-----------------------------------------------------------------------------
(* properties of validate_context_format *)

AppliedContext == pc = "done" /\ endpoint = "validate_context_format"

\* the context is accepted exactly when it is a non-empty list whose first
\* element is a string with the expected prefix
C8_AcceptedIff ==
    AppliedContext =>
        (Accepted(verdict) <=>
            /\ IsList(json_data)
            /\ Len(json_data[2]) >= 1
            /\ IsStr(json_data[2][1])
            /\ StartsWith(json_data[2][1][2], expected_prefix))

\* an edit behind the first element leaves the verdict as it was
C8_LaterElementsIgnored ==
    (AppliedContext /\ IsList(json_data) /\ IsList(json_data') /\ Len(json_data[2]) >= 1
        /\ Len(json_data'[2]) >= 1 /\ json_data'[2][1] = json_data[2][1])
            => verdict' = verdict

\* C8: validate_context_format accepts a value if and only if it is a
\* non-empty list whose first element is a string starting with the expected
\* prefix, and replacing, adding or removing any later element never changes
\* the verdict.
C8_FirstElementOnly == [](C8_AcceptedIff) /\ [][C8_LaterElementsIgnored]_vars

\* an accepted list whose later elements are a non-string and a wrong URL
C8_Witness ==
    /\ AppliedContext
    /\ Accepted(verdict)
    /\ IsList(json_data)
    /\ Len(json_data[2]) = 3
    /\ json_data[2][2] = Num(5)
    /\ json_data[2][3] = Str(UrlOther)

====
